---- MODULE Spec2Model ----
(***************************************************************************)
(* Tiny ERP MCP server: OAuth 2.0 token lifecycle (services/oauth.ts) and  *)
(* the authenticated request pipeline (services/api-client.ts, the axios   *)
(* request and response interceptors).                                     *)
(*                                                                         *)
(* Time is Date.now() in milliseconds.  Tool invocations are the processes *)
(* of Procs; each runs one logical outbound request at a time through the  *)
(* interceptors.  The token file ~/.tiny-mcp/tokens.json is the variable   *)
(* file.  Every await on the network (refresh POST, outbound send) is a    *)
(* suspension point between two actions; the code between two awaits is    *)
(* one action, as Node runs it without interleaving.                       *)
(***************************************************************************)
EXTENDS Integers, Sequences, FiniteSets, TLC

(* ------------------------------ bounds -------------------------------- *)
MaxTicks == 2

Procs == {1, 2}
TickMs == 3 * 60 * 1000
ExpiresInChoices == {240, 600}
RefreshExpiresInChoices == {360, 1200}
HttpStatuses == {200, 400, 401, 403, 404, 429, 500, 503}
TransportCodes == {"ECONNABORTED", "ENOTFOUND", "ECONNREFUSED"}

(* --------------------------- token records ---------------------------- *)
Blank(kind) ==
  [kind |-> kind, access_token |-> 0, refresh_token |-> 0, token_type |-> "",
   expires_in |-> 0, refresh_expires_in |-> 0,
   access_token_expires_at |-> 0, refresh_token_expires_at |-> 0]

NoFile == Blank("absent")
CorruptFile == Blank("corrupt")
Null == Blank("null")

\* The body of a 2xx answer of the token endpoint: the n-th pair it issues.
TokenResponse(n, e, r) ==
  [kind |-> "tokens", access_token |-> n, refresh_token |-> n,
   token_type |-> "Bearer", expires_in |-> e, refresh_expires_in |-> r,
   access_token_expires_at |-> 0, refresh_token_expires_at |-> 0]

bufferTime == 5 * 60 * 1000

\* saveTokens keeping the expiry instants its argument already carries.
saveTokensTrustsExpiry(tokens, t) ==
  [tokens EXCEPT
     !.access_token_expires_at =
        IF @ # 0 THEN @ ELSE t + (tokens.expires_in * 1000),
     !.refresh_token_expires_at =
        IF @ # 0 THEN @ ELSE t + (tokens.refresh_expires_in * 1000)]

\* saveTokens adding the lifetimes in seconds to the millisecond clock.
saveTokensSeconds(tokens, t) ==
  [tokens EXCEPT !.access_token_expires_at = t + tokens.expires_in,
                 !.refresh_token_expires_at = t + tokens.refresh_expires_in]

saveTokens(tokens, t) ==
  [tokens EXCEPT !.access_token_expires_at = t + (tokens.expires_in * 1000),
                 !.refresh_token_expires_at = t + (tokens.refresh_expires_in * 1000)]

\* loadTokens without its try/catch: unparsable content is handed on.
loadTokensNoCatch(f) == IF f.kind = "absent" THEN Null ELSE f

loadTokens(f) ==
  IF f.kind = "absent" THEN Null
  ELSE IF f.kind = "corrupt" THEN Null
  ELSE f

\* clearTokens removing the file only when it holds a readable pair.
clearTokensKeepsUnreadable(f) == IF f.kind = "tokens" THEN NoFile ELSE f

clearTokens(f) == IF f.kind # "absent" THEN NoFile ELSE f

\* isAccessTokenExpired with the buffer doubled.
isAccessTokenExpiredWideBuffer(tokens, t) ==
  IF tokens.access_token_expires_at = 0 THEN TRUE
  ELSE t >= tokens.access_token_expires_at - 2 * bufferTime

isAccessTokenExpired(tokens, t) ==
  IF tokens.access_token_expires_at = 0 THEN TRUE
  ELSE t >= tokens.access_token_expires_at - bufferTime

\* isRefreshTokenExpired with > for >=.
isRefreshTokenExpiredStrict(tokens, t) ==
  IF tokens.refresh_token_expires_at = 0 THEN TRUE
  ELSE t > tokens.refresh_token_expires_at

isRefreshTokenExpired(tokens, t) ==
  IF tokens.refresh_token_expires_at = 0 THEN TRUE
  ELSE t >= tokens.refresh_token_expires_at

(* ------------------------------- errors ------------------------------- *)
MsgNaoAutenticado == "Nao autenticado. Execute 'tiny-mcp-auth' para fazer login OAuth."
MsgSessaoExpirada == "Sessao expirada. Execute 'tiny-mcp-auth' para fazer login novamente."
MsgFalhaRenovar == "Falha ao renovar token. Execute 'tiny-mcp-auth' para fazer login novamente."
MsgConfig == "Configuracao OAuth nao encontrada. Defina TINY_CLIENT_ID e TINY_CLIENT_SECRET."

NoError == [axios |-> FALSE, message |-> "", status |-> 0, code |-> ""]
PlainError(msg) == [axios |-> FALSE, message |-> msg, status |-> 0, code |-> ""]
\* AxiosError of a non-2xx answer, and of a transport failure (no response).
StatusError(s) ==
  [axios |-> TRUE, message |-> "Request failed with status code", status |-> s,
   code |-> "ERR_BAD_RESPONSE"]
TransportError(c) ==
  [axios |-> TRUE, message |-> "transport failure", status |-> 0, code |-> c]

VARIABLES now, file, issued, oauthConfig,
          pc, caller, posted, hdr, retry, result,
          call, sent, replies, gvatCalls, tokenCalls

\* The interactive login of auth-cli (startCallbackServer): the local
\* listener, the state generated for the attempt, the promise it returns, its
\* timer, the code exchanges in flight, the code exchanges started so far, and
\* the query parameters of the latest callback request (n counts them).
VARIABLES listening, lstate, promise, loginErr, timer, loginStart, inflight,
          codeCalls, cb

\* For the token store taken on its own: the argument and the instant of the
\* saveTokens call that wrote the file, and the result of the loadTokens call
\* made since (all blank when there has been none).
VARIABLES arg, savedAt, loaded

\* The clearTokens calls made since the file was last written, and what the
\* status command of auth-cli has found (blank until it has run).
VARIABLES clears, checked

loginVars == <<listening, lstate, promise, loginErr, timer, loginStart, inflight,
               codeCalls, cb>>
storeVars == <<arg, savedAt, loaded, clears, checked>>

vars == <<now, file, issued, oauthConfig,
          pc, caller, posted, hdr, retry, result,
          call, sent, replies, gvatCalls, tokenCalls, loginVars, storeVars>>

NoHeader == [scheme |-> "", token |-> 0]
Bearer(t) == [scheme |-> "Bearer", token |-> t]

\* What is remembered of a process's latest getValidAccessToken call: which
\* branch it took, how it ended, and the refresh exchanges it made.
NoCall == [branch |-> "none", out |-> "none", refreshes |-> 0, ret |-> 0, err |-> NoError]

Pending == [state |-> "pending", status |-> 0, error |-> NoError]
Success(s) == [state |-> "ok", status |-> s, error |-> NoError]
Failure(e) == [state |-> "error", status |-> e.status, error |-> e]

NoCallback == [n |-> 0, code |-> "", state |-> "", error |-> ""]

\* The timer taken to be over as soon as it is armed.
TimerDueAtOnce == timer = "armed"

\* The delay of the setTimeout of startCallbackServer, and whether it is over.
LoginTimeoutMs == 5 * 60 * 1000
TimerDue == timer = "armed" /\ now >= loginStart + LoginTimeoutMs

LoginOff ==
  /\ cb = NoCallback
  /\ listening = FALSE
  /\ lstate = ""
  /\ promise = "none"
  /\ loginErr = ""
  /\ timer = "none"
  /\ loginStart = 0
  /\ inflight = 0
  /\ codeCalls = 0

\* No loadTokens call has been made yet.
NotLoaded == Blank("notloaded")

\* The status command has not run yet.
NotChecked == [done |-> FALSE, authenticated |-> FALSE, access |-> FALSE, refresh |-> FALSE]

StoreUnused ==
  /\ arg = Null
  /\ savedAt = 0
  /\ loaded = NotLoaded
  /\ clears = 0
  /\ checked = NotChecked

RequestsNotStarted ==
  /\ caller = [p \in Procs |-> "request"]
  /\ posted = [p \in Procs |-> 0]
  /\ hdr = [p \in Procs |-> NoHeader]
  /\ retry = [p \in Procs |-> FALSE]
  /\ result = [p \in Procs |-> Pending]
  /\ call = [p \in Procs |-> NoCall]
  /\ sent = [p \in Procs |-> << >>]
  /\ replies = [p \in Procs |-> << >>]
  /\ gvatCalls = [p \in Procs |-> 0]
  /\ tokenCalls = [p \in Procs |-> 0]

InitShared ==
  /\ LoginOff
  /\ StoreUnused
  /\ RequestsNotStarted
  /\ now = 0
  /\ issued = 1
  /\ file \in {NoFile, CorruptFile}
        \cup {saveTokens(TokenResponse(1, e, r), 0) :
                e \in ExpiresInChoices, r \in RefreshExpiresInChoices}
  /\ oauthConfig \in {"null", "set"}

Init ==
  /\ InitShared
  /\ pc = [p \in Procs |-> "Idle"]

(* ----------------------- getValidAccessToken -------------------------- *)
\* The code of getValidAccessToken up to its first await (or its return or
\* throw when there is none): what it does to the token file and how it ends.
getValidAccessToken(f, t) ==
  LET tk == loadTokens(f) IN
    IF tk.kind = "null"
      THEN [branch |-> "absent", step |-> "throw", file |-> f, refresh_token |-> 0,
            token |-> 0, error |-> PlainError(MsgNaoAutenticado)]
    ELSE IF isRefreshTokenExpired(tk, t)
      THEN [branch |-> "refreshExpired", step |-> "throw", file |-> clearTokens(f),
            refresh_token |-> 0, token |-> 0, error |-> PlainError(MsgSessaoExpirada)]
    ELSE IF isAccessTokenExpired(tk, t)
      THEN [branch |-> "accessExpired", step |-> "await", file |-> f,
            refresh_token |-> tk.refresh_token, token |-> 0, error |-> NoError]
    ELSE [branch |-> "valid", step |-> "return", file |-> f, refresh_token |-> 0,
          token |-> tk.access_token, error |-> NoError]

\* refreshAccessToken returning the pair of the answer without saving it.
refreshAccessTokenNoSave(f, data, t) ==
  [branch |-> "accessExpired", step |-> "return", file |-> f,
   refresh_token |-> 0, token |-> data.access_token, error |-> NoError]

\* refreshAccessToken writing the new access token into the stored record and
\* keeping the refresh token that is there.
refreshAccessTokenKeepsStoredRefresh(f, data, t) ==
  [branch |-> "accessExpired", step |-> "return",
   file |-> IF loadTokens(f).kind = "null" THEN saveTokens(data, t)
            ELSE [saveTokens(data, t) EXCEPT !.refresh_token = loadTokens(f).refresh_token],
   refresh_token |-> 0, token |-> data.access_token, error |-> NoError]

\* refreshAccessToken refusing to save, and throwing, when the pair it was
\* started for is no longer the stored one.
refreshAccessTokenChecksStore(f, data, t) ==
  IF loadTokens(f).kind = "null" \/ loadTokens(f).access_token # data.access_token - 1
    THEN [branch |-> "accessExpired", step |-> "throw", file |-> f,
          refresh_token |-> 0, token |-> 0, error |-> PlainError(MsgFalhaRenovar)]
  ELSE [branch |-> "accessExpired", step |-> "return", file |-> saveTokens(data, t),
        refresh_token |-> 0, token |-> data.access_token, error |-> NoError]

\* refreshAccessToken after its POST was answered 2xx with body `data` at time t.
refreshAccessToken(f, data, t) ==
  [branch |-> "accessExpired", step |-> "return", file |-> saveTokens(data, t),
   refresh_token |-> 0, token |-> data.access_token, error |-> NoError]

\* The catch without its clearTokens call.
refreshFailedKeepsFile(f) ==
  [branch |-> "accessExpired", step |-> "throw", file |-> f,
   refresh_token |-> 0, token |-> 0, error |-> PlainError(MsgFalhaRenovar)]

\* The catch of getValidAccessToken around refreshAccessToken.
refreshFailed(f) ==
  [branch |-> "accessExpired", step |-> "throw", file |-> clearTokens(f),
   refresh_token |-> 0, token |-> 0, error |-> PlainError(MsgFalhaRenovar)]

(* --------------------------- interceptors ----------------------------- *)
\* The re-issue test with the wrong status, without the _retry flag, and for
\* every failure status.
ShouldRetryOn403(status, retried, cfg) == status = 403 /\ ~retried /\ cfg # "null"
ShouldRetryIgnoresFlag(status, retried, cfg) == status = 401 /\ cfg # "null"
ShouldRetryAnyFailure(status, retried, cfg) == status # 200 /\ ~retried /\ cfg # "null"

\* The re-issue test asking also that the stored access token be expired by
\* the local clock.
ShouldRetryOnlyIfStale(status, retried, cfg) ==
  /\ status = 401 /\ ~retried /\ cfg # "null"
  /\ isAccessTokenExpired(loadTokens(file), now)

\* The test of the response interceptor's error handler for a re-issue.
ShouldRetry(status, retried, cfg) == status = 401 /\ ~retried /\ cfg # "null"

\* The catch handing on the error it caught.
RetryCatchRethrows(e) == e

\* The catch of the response interceptor around its getValidAccessToken call.
RetryCatch(e) == PlainError(MsgSessaoExpirada)

\* The re-issue going out with the response interceptor's header, past the
\* request interceptor.
ResumeBypass(p, who, g) ==
  CASE g.step = "return" ->
         /\ hdr' = [hdr EXCEPT ![p] = Bearer(g.token)]
         /\ pc' = [pc EXCEPT ![p] = "TokenValid"]
         /\ UNCHANGED result
    [] g.step = "throw" ->
         /\ result' = [result EXCEPT ![p] =
                         Failure(IF who = "request" THEN g.error
                                 ELSE PlainError(MsgSessaoExpirada))]
         /\ pc' = [pc EXCEPT ![p] = "Done"]
         /\ UNCHANGED hdr
    [] g.step = "await" ->
         /\ pc' = [pc EXCEPT ![p] = "Refreshing"]
         /\ UNCHANGED <<hdr, result>>

\* How the interceptor `who` goes on once its getValidAccessToken call ended
\* as g (return, throw) or suspended (await).
Resume(p, who, g) ==
  CASE g.step = "return" ->
         /\ hdr' = [hdr EXCEPT ![p] = Bearer(g.token)]
         /\ pc' = [pc EXCEPT ![p] = IF who = "request" THEN "TokenValid" ELSE "NeedToken"]
         /\ UNCHANGED result
    [] g.step = "throw" ->
         /\ result' = [result EXCEPT ![p] =
                         Failure(IF who = "request" THEN g.error ELSE RetryCatch(g.error))]
         /\ pc' = [pc EXCEPT ![p] = "Done"]
         /\ UNCHANGED hdr
    [] g.step = "await" ->
         /\ pc' = [pc EXCEPT ![p] = "Refreshing"]
         /\ UNCHANGED <<hdr, result>>

\* A getValidAccessToken call of process p made by interceptor `who`.
CallGvat(p, who) ==
  LET g == getValidAccessToken(file, now) IN
    /\ file' = g.file
    /\ posted' = [posted EXCEPT ![p] = g.refresh_token]
    /\ caller' = [caller EXCEPT ![p] = who]
    /\ gvatCalls' = [gvatCalls EXCEPT ![p] = @ + 1]
    /\ tokenCalls' = [tokenCalls EXCEPT ![p] = IF g.step = "await" THEN @ + 1 ELSE @]
    /\ call' = [call EXCEPT ![p] =
                  [branch |-> g.branch, out |-> g.step,
                   refreshes |-> IF g.step = "await" THEN 1 ELSE 0,
                   ret |-> g.token, err |-> g.error]]
    /\ Resume(p, who, g)

\* apiGet / apiPost / apiPut / apiDelete: a tool starts a logical request.
apiRequest(p) ==
  /\ UNCHANGED <<loginVars, storeVars>>
  /\ pc[p] = "Idle"
  /\ pc' = [pc EXCEPT ![p] = "NeedToken"]
  /\ UNCHANGED <<now, file, issued, oauthConfig, caller, posted, hdr, retry, result,
                 call, sent, replies, gvatCalls, tokenCalls>>

\* The request interceptor going on to getValidAccessToken without its test
\* of the OAuth configuration.
RequestInterceptorSkipsConfigTest(p) ==
  /\ UNCHANGED <<loginVars, storeVars>>
  /\ pc[p] = "NeedToken"
  /\ oauthConfig = "null"
  /\ CallGvat(p, "request")
  /\ UNCHANGED <<now, issued, oauthConfig, retry, sent, replies>>

\* The request interceptor without OAuth configuration: it throws at once.
RequestInterceptorNoConfig(p) ==
  /\ UNCHANGED <<loginVars, storeVars>>
  /\ pc[p] = "NeedToken"
  /\ oauthConfig = "null"
  /\ result' = [result EXCEPT ![p] = Failure(PlainError(MsgConfig))]
  /\ pc' = [pc EXCEPT ![p] = "Done"]
  /\ UNCHANGED <<now, file, issued, oauthConfig, caller, posted, hdr, retry,
                 call, sent, replies, gvatCalls, tokenCalls>>

\* The request interceptor: it runs for the first send and for the re-issue.
RequestInterceptor(p) ==
  /\ UNCHANGED <<loginVars, storeVars>>
  /\ pc[p] = "NeedToken"
  /\ oauthConfig # "null"
  /\ CallGvat(p, "request")
  /\ UNCHANGED <<now, issued, oauthConfig, retry, sent, replies>>

\* The token endpoint answers the refresh POST 2xx with a newly issued pair.
RefreshOk(p, e, r) ==
  /\ UNCHANGED <<loginVars, storeVars>>
  /\ pc[p] = "Refreshing"
  /\ LET data == TokenResponse(issued + 1, e, r)
         g == refreshAccessToken(file, data, now) IN
       /\ issued' = issued + 1
       /\ file' = g.file
       /\ call' = [call EXCEPT ![p].out = g.step, ![p].ret = g.token]
       /\ posted' = [posted EXCEPT ![p] = g.refresh_token]
       /\ Resume(p, caller[p], g)
  /\ UNCHANGED <<now, oauthConfig, caller, retry, sent, replies, gvatCalls, tokenCalls>>

\* The refresh POST fails (non-2xx answer or network error).
RefreshFail(p) ==
  /\ UNCHANGED <<loginVars, storeVars>>
  /\ pc[p] = "Refreshing"
  /\ LET g == refreshFailed(file) IN
       /\ file' = g.file
       /\ call' = [call EXCEPT ![p].out = g.step, ![p].err = g.error]
       /\ posted' = [posted EXCEPT ![p] = g.refresh_token]
       /\ Resume(p, caller[p], g)
  /\ UNCHANGED <<now, issued, oauthConfig, caller, retry, sent, replies, gvatCalls,
                 tokenCalls>>

\* The request leaving with the access token the token file holds when it is
\* dispatched.
SendStoredToken(p) ==
  /\ UNCHANGED <<loginVars, storeVars>>
  /\ pc[p] = "TokenValid"
  /\ sent' = [sent EXCEPT ![p] = Append(@, Bearer(loadTokens(file).access_token))]
  /\ pc' = [pc EXCEPT ![p] = "Sent"]
  /\ UNCHANGED <<now, file, issued, oauthConfig, caller, posted, hdr, retry,
                 result, call, replies, gvatCalls, tokenCalls>>

\* dispatchRequest: the request leaves with the headers of its config.
Send(p) ==
  /\ UNCHANGED <<loginVars, storeVars>>
  /\ pc[p] = "TokenValid"
  /\ sent' = [sent EXCEPT ![p] = Append(@, hdr[p])]
  /\ pc' = [pc EXCEPT ![p] = "Sent"]
  /\ UNCHANGED <<now, file, issued, oauthConfig, caller, posted, hdr, retry,
                 result, call, replies, gvatCalls, tokenCalls>>

\* The ERP API answers with HTTP status s: the response interceptor runs.
Response(p, s) ==
  /\ UNCHANGED <<loginVars, storeVars>>
  /\ pc[p] = "Sent"
  /\ replies' = [replies EXCEPT ![p] = Append(@, s)]
  /\ IF s = 200
       THEN /\ result' = [result EXCEPT ![p] = Success(s)]
            /\ pc' = [pc EXCEPT ![p] = "Done"]
            /\ UNCHANGED <<file, caller, posted, hdr, retry, call, gvatCalls, tokenCalls>>
     ELSE IF ShouldRetry(s, retry[p], oauthConfig)
       THEN /\ retry' = [retry EXCEPT ![p] = TRUE]
            /\ CallGvat(p, "response")
     ELSE /\ result' = [result EXCEPT ![p] = Failure(StatusError(s))]
          /\ pc' = [pc EXCEPT ![p] = "Done"]
          /\ UNCHANGED <<file, caller, posted, hdr, retry, call, gvatCalls, tokenCalls>>
  /\ UNCHANGED <<now, issued, oauthConfig, sent>>

\* The send ends without a response (timeout, DNS or connection failure).
TransportFailure(p, c) ==
  /\ UNCHANGED <<loginVars, storeVars>>
  /\ pc[p] = "Sent"
  /\ replies' = [replies EXCEPT ![p] = Append(@, 0)]
  /\ result' = [result EXCEPT ![p] = Failure(TransportError(c))]
  /\ pc' = [pc EXCEPT ![p] = "Done"]
  /\ UNCHANGED <<now, file, issued, oauthConfig, caller, posted, hdr, retry,
                 call, sent, gvatCalls, tokenCalls>>

\* Date.now() advances.
Tick ==
  /\ UNCHANGED <<loginVars, storeVars>>
  /\ now + TickMs <= MaxTicks * TickMs
  /\ ~TimerDue
  /\ now' = now + TickMs
  /\ UNCHANGED <<file, issued, oauthConfig, pc, caller, posted, hdr, retry,
                 result, call, sent, replies, gvatCalls, tokenCalls>>

Next ==
  \/ Tick
  \/ \E p \in Procs : apiRequest(p)
  \/ \E p \in Procs : RequestInterceptorNoConfig(p)
  \/ \E p \in Procs : RequestInterceptor(p)
  \/ \E p \in Procs, e \in ExpiresInChoices, r \in RefreshExpiresInChoices : RefreshOk(p, e, r)
  \/ \E p \in Procs : RefreshFail(p)
  \/ \E p \in Procs : Send(p)
  \/ \E p \in Procs, s \in HttpStatuses : Response(p, s)
  \/ \E p \in Procs, c \in TransportCodes : TransportFailure(p, c)

Spec == Init /\ [][Next]_vars

\* One tool invocation whose steps are all taken in the end: the event loop
\* runs the interceptors and the send, and every token-endpoint call and every
\* send is answered or fails (axios gives each send its timeout of 30 s).
InitOne ==
  /\ InitShared
  /\ pc = [p \in Procs |-> IF p = 1 THEN "Idle" ELSE "Off"]

PipelineStep(p) ==
  \/ RequestInterceptorNoConfig(p)
  \/ RequestInterceptor(p)
  \/ \E e \in ExpiresInChoices, r \in RefreshExpiresInChoices : RefreshOk(p, e, r)
  \/ RefreshFail(p)
  \/ Send(p)
  \/ \E s \in HttpStatuses : Response(p, s)
  \/ \E c \in TransportCodes : TransportFailure(p, c)

SpecFair == InitOne /\ [][Next]_vars /\ \A p \in Procs : WF_vars(PipelineStep(p))

(* --------------------------- handleApiError --------------------------- *)
TxtNaoAutorizado == "Nao autorizado. Execute 'tiny-mcp-auth' para autenticar."

\* The text a tool shows for a caught error (without the leading mark).
handleApiError(error) ==
  IF error.axios
    THEN IF error.message \in {MsgSessaoExpirada, MsgNaoAutenticado} THEN error.message
         ELSE IF error.status # 0
           THEN CASE error.status = 400 -> "Requisicao invalida"
                  [] error.status = 401 -> TxtNaoAutorizado
                  [] error.status = 403 -> "Acesso negado"
                  [] error.status = 404 -> "Recurso nao encontrado"
                  [] error.status = 429 -> "Limite de requisicoes excedido. Aguarde antes de tentar novamente."
                  [] error.status = 500 -> "Erro interno do servidor Tiny"
                  [] error.status = 503 -> "Servico temporariamente indisponivel"
                  [] OTHER -> "Erro"
         ELSE IF error.code = "ECONNABORTED"
           THEN "Timeout: a requisicao demorou muito para responder"
         ELSE IF error.code \in {"ENOTFOUND", "ECONNREFUSED"}
           THEN "Nao foi possivel conectar ao servidor Tiny"
         ELSE "Erro de conexao"
  ELSE error.message

(* ======================= properties of the code ======================= *)
\* The texts of the session-expired category: the refresh token is expired
\* or the refresh attempt failed.
SessionExpiredTexts == {MsgSessaoExpirada, MsgFalhaRenovar}

FiveMinutes == 5 * 60 * 1000
Readable(f) == f.kind = "tokens"
RefreshExpiredAt(f, t) ==
  f.refresh_token_expires_at = 0 \/ t >= f.refresh_token_expires_at
AccessExpiredAt(f, t) ==
  f.access_token_expires_at = 0 \/ t >= f.access_token_expires_at - FiveMinutes

\* Process p makes a getValidAccessToken call in this step.
GvatStep(p) == gvatCalls'[p] = gvatCalls[p] + 1
\* The refresh POST of process p is answered in this step.
RefreshAnswered(p) == pc[p] = "Refreshing" /\ pc'[p] # "Refreshing"
\* Process p receives the answer to a send in this step.
Replied(p) == Len(replies'[p]) = Len(replies[p]) + 1
LastReply(p) == replies'[p][Len(replies'[p])]

\* C1: a getValidAccessToken call that finds a pair with an expired access
\* token (inside the 5-minute buffer) and a live refresh token makes exactly
\* one refresh exchange; when that exchange is answered with a new pair, the
\* file is overwritten with that pair, its expiries computed at save time, the
\* call returns the new access token, and a load returns the new pair.
C1_RefreshOnExpiredAccess ==
  [][\A p \in Procs :
       /\ (GvatStep(p) /\ Readable(file) /\ AccessExpiredAt(file, now)
             /\ ~RefreshExpiredAt(file, now))
            => /\ pc'[p] = "Refreshing"
               /\ call'[p].refreshes = 1
               /\ tokenCalls'[p] = tokenCalls[p] + 1
               /\ posted'[p] = file.refresh_token
               /\ file' = file
       /\ (RefreshAnswered(p) /\ call'[p].out = "return")
            => /\ call'[p].refreshes = 1
               /\ tokenCalls'[p] = tokenCalls[p]
               /\ issued' = issued + 1
               /\ file'.kind = "tokens"
               /\ file'.access_token = issued'
               /\ file'.refresh_token = issued'
               /\ file'.access_token_expires_at = now + file'.expires_in * 1000
               /\ file'.refresh_token_expires_at = now + file'.refresh_expires_in * 1000
               /\ call'[p].ret = file'.access_token
               /\ hdr'[p] = Bearer(file'.access_token)
               /\ loadTokens(file') = file'
  ]_vars

C1_Witness ==
  \E p \in Procs :
    /\ call[p].branch = "accessExpired" /\ call[p].out = "return"
    /\ call[p].ret = 2 /\ file.kind = "tokens" /\ file.access_token = 2
    /\ file.refresh_token = 2 /\ file.access_token_expires_at > 0

\* C2: a getValidAccessToken call that finds a pair whose refresh token is
\* expired clears the file and fails with the session-expired error without
\* any refresh exchange; a load then returns absent.
C2_ExpiredRefreshClears ==
  [][\A p \in Procs :
       (GvatStep(p) /\ Readable(file) /\ RefreshExpiredAt(file, now))
         => /\ file' = NoFile
            /\ loadTokens(file').kind = "null"
            /\ call'[p].out = "throw"
            /\ call'[p].err = PlainError(MsgSessaoExpirada)
            /\ call'[p].refreshes = 0
            /\ tokenCalls'[p] = tokenCalls[p]
            /\ issued' = issued
            /\ pc'[p] = "Done"
            /\ result'[p].state = "error"
  ]_vars

C2_Witness ==
  \E p \in Procs :
    /\ call[p].branch = "refreshExpired" /\ call[p].out = "throw"
    /\ file.kind = "absent" /\ pc[p] = "Done" /\ tokenCalls[p] = 0

\* C3: when the refresh exchange of a getValidAccessToken call fails, the call
\* clears the file and fails with a session-expired error, and no second
\* refresh exchange is made within that call.
C3_FailedRefreshClears ==
  [][\A p \in Procs :
       (RefreshAnswered(p) /\ call'[p].out # "return")
         => /\ file' = NoFile
            /\ call'[p].out = "throw"
            /\ ~call'[p].err.axios
            /\ call'[p].err.message \in SessionExpiredTexts
            /\ call'[p].refreshes = 1
            /\ tokenCalls'[p] = tokenCalls[p]
            /\ gvatCalls'[p] = gvatCalls[p]
            /\ issued' = issued
            /\ pc'[p] = "Done"
            /\ result'[p].state = "error"
            /\ result'[p].error.message \in SessionExpiredTexts
  ]_vars

C3_Witness ==
  \E p \in Procs :
    /\ call[p].branch = "accessExpired" /\ call[p].out = "throw"
    /\ call[p].refreshes = 1 /\ file.kind = "absent" /\ pc[p] = "Done"

\* C4: a getValidAccessToken call that finds no readable pair (no file, or a
\* corrupt one) fails with the not-authenticated error, which is not a
\* session-expired error, makes no token-endpoint call and leaves the file as
\* it is, so that a load still returns absent.
C4_AbsentNotAuthenticated ==
  [][\A p \in Procs :
       (GvatStep(p) /\ ~Readable(file))
         => /\ call'[p].out = "throw"
            /\ call'[p].err = PlainError(MsgNaoAutenticado)
            /\ call'[p].err.message \notin SessionExpiredTexts
            /\ call'[p].refreshes = 0
            /\ tokenCalls'[p] = tokenCalls[p]
            /\ issued' = issued
            /\ file' = file
            /\ loadTokens(file').kind = "null"
            /\ pc'[p] = "Done"
  ]_vars

C4_Witness ==
  \E p \in Procs :
    /\ call[p].branch = "absent" /\ call[p].err.message = MsgNaoAutenticado
    /\ file.kind = "corrupt" /\ tokenCalls[p] = 0 /\ pc[p] = "Done"

\* C5: a getValidAccessToken call that finds a pair with neither token
\* expired returns the stored access token, makes no token-endpoint call and
\* leaves the file unchanged.
C5_ValidTokenUnchanged ==
  [][\A p \in Procs :
       (GvatStep(p) /\ Readable(file) /\ ~RefreshExpiredAt(file, now)
          /\ ~AccessExpiredAt(file, now))
         => /\ call'[p].out = "return"
            /\ call'[p].ret = file.access_token
            /\ hdr'[p] = Bearer(file.access_token)
            /\ call'[p].refreshes = 0
            /\ tokenCalls'[p] = tokenCalls[p]
            /\ issued' = issued
            /\ file' = file
  ]_vars

C5_Witness ==
  \E p \in Procs :
    /\ call[p].branch = "valid" /\ call[p].out = "return"
    /\ file.kind = "tokens" /\ call[p].ret = file.access_token
    /\ tokenCalls[p] = 0 /\ pc[p] = "TokenValid"

\* C6: every request that is sent, the first send and the re-issue alike,
\* carries "Bearer t" where t was returned by a getValidAccessToken call that
\* the request interceptor made for that send; when a getValidAccessToken call
\* fails, nothing is sent, then or later.
C6_EverySendCarriesFreshBearer ==
  [][\A p \in Procs :
       /\ (Len(sent'[p]) = Len(sent[p]) + 1)
            => /\ sent'[p][Len(sent'[p])] = Bearer(call[p].ret)
               /\ call[p].out = "return"
               /\ call[p].ret > 0
               /\ caller[p] = "request"
               /\ gvatCalls[p] = 2 * Len(sent'[p]) - 1
       /\ (call'[p] # call[p] /\ call'[p].out = "throw")
            => sent'[p] = sent[p] /\ pc'[p] = "Done"
       /\ (pc[p] = "Done") => (pc'[p] = "Done" /\ sent'[p] = sent[p])
  ]_vars

C6_Witness ==
  \E p \in Procs :
    /\ Len(sent[p]) = 2 /\ sent[p][2] = Bearer(call[p].ret)
    /\ sent[p][2].token # sent[p][1].token /\ gvatCalls[p] = 3

\* C7: a call whose first send is answered 401 and whose re-issue is answered
\* 200 ends with the 200 result after exactly two sends; a first 401 is never
\* itself the outcome of the call.
C7_RetryThenSuccess ==
  \A p \in Procs :
    /\ (replies[p] = <<401, 200>>)
         => pc[p] = "Done" /\ result[p] = Success(200) /\ Len(sent[p]) = 2
    /\ (pc[p] = "Done" /\ replies[p] = <<401>>)
         => result[p].state = "error" /\ ~result[p].error.axios

C7_Witness ==
  \E p \in Procs :
    replies[p] = <<401, 200>> /\ result[p].state = "ok" /\ retry[p]

\* C8 as stated: after 401 on the first send and 401 on the re-issue the caller
\* gets a session-expired error after two sends.
C8_Original ==
  \A p \in Procs :
    (replies[p] = <<401, 401>>)
      => /\ pc[p] = "Done" /\ Len(sent[p]) = 2
         /\ result[p].state = "error"
         /\ \/ result[p].error.message \in SessionExpiredTexts
            \/ handleApiError(result[p].error) \in SessionExpiredTexts

\* C8 (amended): after 401 on the first send and 401 on the re-issue the call
\* ends after exactly two sends with the second 401 response error itself,
\* which a tool shows as the not-authorized text, not a session-expired one.
C8_SecondUnauthorizedSurfaced ==
  \A p \in Procs :
    (Len(replies[p]) >= 2 /\ replies[p][1] = 401 /\ replies[p][2] = 401)
      => /\ pc[p] = "Done" /\ Len(sent[p]) = 2 /\ Len(replies[p]) = 2
         /\ result[p] = Failure(StatusError(401))
         /\ handleApiError(result[p].error) = TxtNaoAutorizado
         /\ handleApiError(result[p].error) \notin SessionExpiredTexts

C8_Witness ==
  \E p \in Procs :
    replies[p] = <<401, 401>> /\ pc[p] = "Done" /\ result[p].status = 401

\* C9: whatever the server answers, a logical request is sent at most twice;
\* the second send exists only after a 401 answer to the first and with the
\* request marked retried, and a retried request is not re-issued again.
C9_AtMostOneRetry ==
  \A p \in Procs :
    /\ Len(sent[p]) <= 2
    /\ Len(replies[p]) <= Len(sent[p])
    /\ (Len(sent[p]) = 2) => (retry[p] /\ replies[p][1] = 401)
    /\ retry[p] => (Len(replies[p]) >= 1 /\ replies[p][1] = 401)
    /\ (Len(replies[p]) = 2) => pc[p] = "Done"

C9_Witness ==
  \E p \in Procs :
    Len(sent[p]) = 2 /\ Len(replies[p]) = 2 /\ replies[p][2] = 500 /\ retry[p]

\* C10: an answer with a status other than 2xx and 401, or a transport
\* failure, ends the call with that failure: no re-issue, no further
\* getValidAccessToken call or token-endpoint call, the file unchanged.
C10_OtherFailuresNotRetried ==
  [][\A p \in Procs :
       /\ (Replied(p) /\ LastReply(p) \notin {200, 401})
            => /\ sent' = sent
               /\ gvatCalls' = gvatCalls
               /\ tokenCalls' = tokenCalls
               /\ issued' = issued
               /\ file' = file
               /\ pc'[p] = "Done"
               /\ result'[p].state = "error"
               /\ result'[p].error.axios
               /\ result'[p].status = LastReply(p)
               /\ (LastReply(p) = 0) => result'[p].error.code \in TransportCodes
       /\ (pc[p] = "Done")
            => /\ pc'[p] = "Done" /\ result'[p] = result[p]
               /\ sent'[p] = sent[p] /\ gvatCalls'[p] = gvatCalls[p]
               /\ tokenCalls'[p] = tokenCalls[p]
  ]_vars

C10_Witness ==
  \E p \in Procs, q \in Procs :
    /\ pc[p] = "Done" /\ result[p].status = 503 /\ result[p].error = StatusError(503)
    /\ pc[q] = "Done" /\ result[q].error.code = "ENOTFOUND"

(* -------------------------- interactive login ------------------------- *)
\* Code exchanges in flight at the same time in one login attempt.
MaxInflight == 2

\* Values of the state parameter: what a callback may carry ("" is a callback
\* without the parameter) and, among them, what Math.random() generates.
StateValues == {"s1", "s2"}
GeneratedStates == {"s1"}
CodeValues == {"", "c1"}
ErrorValues == {"", "access_denied"}

MsgInvalidCodeOrState == "Invalid authorization code or state"
MsgTimeout == "Timeout: autenticacao nao completada em 5 minutos"
MsgExchangeFailed == "Request failed with status code 400"
MsgListenFailed == "listen EADDRINUSE"

pipeVars == <<pc, caller, posted, hdr, retry, result, call, sent, replies,
              gvatCalls, tokenCalls>>

\* reject(err) of the promise of startCallbackServer: a settled promise stays
\* as it is.
Reject(msg) ==
  /\ promise' = IF promise = "pending" THEN "rejected" ELSE promise
  /\ loginErr' = IF promise = "pending" THEN msg ELSE loginErr

\* resolve(tokens) of the promise of startCallbackServer.
Resolve ==
  /\ promise' = IF promise = "pending" THEN "resolved" ELSE promise
  /\ UNCHANGED loginErr

\* The process going on after a rejected login.
ProcessAliveAfterReject == TRUE

\* The catch of login in auth-cli ends the process with process.exit(1) as
\* soon as the promise is rejected: nothing it had pending runs after that.
ProcessAlive == promise # "rejected"

\* startCallbackServer: the state is generated, the server listens and the
\* 5-minute timer is armed.
startCallbackServer(st) ==
  /\ promise = "none"
  /\ oauthConfig # "null"
  /\ lstate' = st
  /\ listening' = TRUE
  /\ promise' = "pending"
  /\ timer' = "armed"
  /\ loginStart' = now
  /\ UNCHANGED <<loginErr, inflight, codeCalls, cb>>
  /\ UNCHANGED <<now, file, issued, oauthConfig, pipeVars, storeVars>>

\* startCallbackServer when listen fails: the server's error event rejects.
ServerError(st) ==
  /\ promise = "none"
  /\ oauthConfig # "null"
  /\ lstate' = st
  /\ listening' = FALSE
  /\ promise' = "rejected"
  /\ loginErr' = MsgListenFailed
  /\ timer' = "armed"
  /\ loginStart' = now
  /\ UNCHANGED <<inflight, codeCalls, cb>>
  /\ UNCHANGED <<now, file, issued, oauthConfig, pipeVars, storeVars>>

\* The handler's tests with the state compared only when the callback has
\* one, and with the code and state looked at before the error parameter.
CallbackBranchStateOptional(code, returnedState, error, state) ==
  IF error # "" THEN "error"
  ELSE IF code = "" \/ (returnedState # "" /\ returnedState # state) THEN "invalid"
  ELSE "exchange"
CallbackBranchCodeFirst(code, returnedState, error, state) ==
  IF code # "" /\ returnedState = state THEN "exchange"
  ELSE IF error # "" THEN "error"
  ELSE "invalid"

\* The tests the handler makes on the query parameters, in their order.
CallbackBranch(code, returnedState, error, state) ==
  IF error # "" THEN "error"
  ELSE IF code = "" \/ returnedState # state THEN "invalid"
  ELSE "exchange"

\* The request handler for GET /callback?code=..&state=..&error=.. up to its
\* await of exchangeCodeForTokens or its return.
Callback(code, st, error) ==
  /\ ProcessAlive
  /\ listening
  /\ cb' = [n |-> cb.n + 1, code |-> code, state |-> st, error |-> error]
  /\ LET branch == CallbackBranch(code, st, error, lstate) IN
       CASE branch = "error" ->
              /\ listening' = FALSE
              /\ Reject(error)
              /\ UNCHANGED <<inflight, codeCalls>>
         [] branch = "invalid" ->
              /\ listening' = FALSE
              /\ Reject(MsgInvalidCodeOrState)
              /\ UNCHANGED <<inflight, codeCalls>>
         [] branch = "exchange" ->
              /\ inflight < MaxInflight
              /\ inflight' = inflight + 1
              /\ codeCalls' = codeCalls + 1
              /\ UNCHANGED <<listening, promise, loginErr>>
  /\ UNCHANGED <<lstate, timer, loginStart>>
  /\ UNCHANGED <<now, file, issued, oauthConfig, pipeVars, storeVars>>

\* exchangeCodeForTokens after its POST was answered 2xx with body `data` at
\* time t: the new content of the token file.
exchangeCodeForTokens(data, t) == saveTokens(data, t)

\* The token endpoint answers a code exchange 2xx: the pair is saved, the
\* handler closes the server and resolves.
CodeExchangeOk(e, r) ==
  /\ ProcessAlive
  /\ inflight > 0
  /\ inflight' = inflight - 1
  /\ issued' = issued + 1
  /\ file' = exchangeCodeForTokens(TokenResponse(issued + 1, e, r), now)
  /\ listening' = FALSE
  /\ Resolve
  /\ UNCHANGED <<lstate, timer, loginStart, codeCalls, cb>>
  /\ UNCHANGED <<now, oauthConfig, pipeVars, storeVars>>

\* The code exchange fails: the handler's catch closes the server and rejects.
CodeExchangeFail ==
  /\ ProcessAlive
  /\ inflight > 0
  /\ inflight' = inflight - 1
  /\ listening' = FALSE
  /\ Reject(MsgExchangeFailed)
  /\ UNCHANGED <<lstate, timer, loginStart, codeCalls, cb>>
  /\ UNCHANGED <<now, file, issued, oauthConfig, pipeVars, storeVars>>

\* The setTimeout callback: it closes the server and rejects.
LoginTimeout ==
  /\ ProcessAlive
  /\ TimerDue
  /\ timer' = "fired"
  /\ listening' = FALSE
  /\ Reject(MsgTimeout)
  /\ UNCHANGED <<lstate, loginStart, inflight, codeCalls, cb>>
  /\ UNCHANGED <<now, file, issued, oauthConfig, pipeVars, storeVars>>

\* tiny-mcp-auth logout.
logout ==
  /\ file' = IF loadTokens(file).kind = "null" THEN file ELSE clearTokens(file)
  /\ UNCHANGED <<now, issued, oauthConfig, pipeVars, loginVars, storeVars>>

\* The commands of auth-cli on their own: no tool request is made.
InitLogin ==
  /\ InitShared
  /\ pc = [p \in Procs |-> "Off"]

NextLogin ==
  \/ Tick
  \/ \E st \in GeneratedStates : startCallbackServer(st)
  \/ \E st \in GeneratedStates : ServerError(st)
  \/ \E code \in CodeValues, st \in StateValues \cup {""}, error \in ErrorValues :
       Callback(code, st, error)
  \/ \E e \in ExpiresInChoices, r \in RefreshExpiresInChoices : CodeExchangeOk(e, r)
  \/ CodeExchangeFail
  \/ LoginTimeout
  \/ logout

SpecLogin == InitLogin /\ [][NextLogin]_vars

\* The commands of auth-cli next to the requests of one tool invocation of
\* the server, answered with a success, a 401 or another failure status.
LifecycleStatuses == {200, 401, 500}

InitLifecycle ==
  /\ InitShared
  /\ pc = [p \in Procs |-> IF p = 1 THEN "Idle" ELSE "Off"]

NextLifecycle ==
  \/ NextLogin
  \/ apiRequest(1)
  \/ RequestInterceptorNoConfig(1)
  \/ RequestInterceptor(1)
  \/ \E e \in ExpiresInChoices, r \in RefreshExpiresInChoices : RefreshOk(1, e, r)
  \/ RefreshFail(1)
  \/ Send(1)
  \/ \E s \in LifecycleStatuses : Response(1, s)

SpecLifecycle == InitLifecycle /\ [][NextLifecycle]_vars

(* --------------------- the token store on its own --------------------- *)
\* The pairs handed to saveTokens: token-endpoint answers, and pairs that
\* carry the expiry instants of an earlier save.
StaleExpiries == {0, 15 * 60 * 1000}
StoreArgs ==
  {[TokenResponse(n, e, r) EXCEPT !.refresh_token = n + d,
                                  !.access_token_expires_at = s,
                                  !.refresh_token_expires_at = s] :
     n \in {1, 2}, d \in {0, 1}, e \in ExpiresInChoices,
     r \in RefreshExpiresInChoices, s \in StaleExpiries}

\* clearTokens calls made in a row.
MaxClears == 2

\* saveTokens(tokens) at the present instant.
StoreSave(tokens) ==
  /\ file' = saveTokens(tokens, now)
  /\ arg' = tokens
  /\ savedAt' = now
  /\ loaded' = NotLoaded
  /\ clears' = 0
  /\ UNCHANGED <<now, issued, oauthConfig, pipeVars, loginVars, checked>>

\* loadTokens().
StoreLoad ==
  /\ loaded' = loadTokens(file)
  /\ UNCHANGED <<now, file, issued, oauthConfig, pipeVars, loginVars, arg, savedAt,
                 clears, checked>>

\* clearTokens().
StoreClear ==
  /\ clears < MaxClears
  /\ file' = clearTokens(file)
  /\ arg' = Null
  /\ savedAt' = 0
  /\ loaded' = NotLoaded
  /\ clears' = clears + 1
  /\ UNCHANGED <<now, issued, oauthConfig, pipeVars, loginVars, checked>>

InitStore ==
  /\ InitShared
  /\ pc = [p \in Procs |-> "Off"]

NextStore ==
  \/ Tick
  \/ \E tokens \in StoreArgs : StoreSave(tokens)
  \/ StoreLoad
  \/ StoreClear

SpecStore == InitStore /\ [][NextStore]_vars

(* ------------------------- the expiry tests --------------------------- *)
\* Stored pairs with and without expiry instants (0: the field is missing),
\* and the instants at which the status command looks at them: around each
\* expiry instant and around 5 minutes before it.
ExpiryChoices == {0, 10 * 60 * 1000, 20 * 60 * 1000}
ExpiryFiles ==
  {NoFile} \cup
  {[TokenResponse(1, 600, 1200) EXCEPT !.access_token_expires_at = a,
                                       !.refresh_token_expires_at = r] :
     a \in ExpiryChoices, r \in ExpiryChoices}
ExpiryOffsets ==
  {0 - 6 * 60 * 1000, 0 - 5 * 60 * 1000 - 1, 0 - 5 * 60 * 1000, 0 - 4 * 60 * 1000,
   0 - 1, 0, 1}
ExpiryInstants == {x + d : x \in ExpiryChoices \ {0}, d \in ExpiryOffsets}

\* tiny-mcp-auth status: loadTokens, then both expiry tests.
checkStatus ==
  /\ ~checked.done
  /\ LET tokens == loadTokens(file) IN
       checked' =
         IF tokens.kind = "null"
           THEN [done |-> TRUE, authenticated |-> FALSE, access |-> FALSE,
                 refresh |-> FALSE]
         ELSE [done |-> TRUE, authenticated |-> TRUE,
               access |-> isAccessTokenExpired(tokens, now),
               refresh |-> isRefreshTokenExpired(tokens, now)]
  /\ UNCHANGED <<now, file, issued, oauthConfig, pipeVars, loginVars, arg, savedAt,
                 loaded, clears>>

InitExpiry ==
  /\ LoginOff
  /\ StoreUnused
  /\ RequestsNotStarted
  /\ pc = [p \in Procs |-> "Off"]
  /\ issued = 1
  /\ oauthConfig = "set"
  /\ file \in ExpiryFiles
  /\ now \in ExpiryInstants

NextExpiry == checkStatus

SpecExpiry == InitExpiry /\ [][NextExpiry]_vars

(* ------------------------- concurrent requests ------------------------ *)
\* The refresh POST of process p was started for a pair that is no longer the
\* stored one, or another process has a refresh POST for the same pair in
\* flight.
RaceAt(p) ==
  \/ file.kind # "tokens"
  \/ file.refresh_token # posted[p]
  \/ \E q \in Procs \ {p} : pc[q] = "Refreshing" /\ posted[q] = posted[p]

\* C11: when the refresh exchanges of two requests overlap, the request whose
\* refresh POST is answered with a new pair goes on with the access token of
\* its own answer whatever the other request did to the token file meanwhile:
\* its getValidAccessToken call returns, the request stays pending with that
\* token as its bearer header, and the request interceptor's send carries it.
C11_RaceLoserTokenUsable ==
  [][\A p \in Procs :
       /\ (RefreshAnswered(p) /\ issued' = issued + 1 /\ RaceAt(p)) =>
            /\ call'[p].out = "return"
            /\ call'[p].ret = issued'
            /\ result'[p] = Pending
            /\ hdr'[p] = Bearer(issued')
            /\ pc'[p] = IF caller[p] = "request" THEN "TokenValid" ELSE "NeedToken"
       /\ (pc[p] = "TokenValid" /\ pc'[p] # "TokenValid") =>
            /\ pc'[p] = "Sent"
            /\ sent'[p] = Append(sent[p], hdr[p])
            /\ result'[p] = Pending]_vars

\* Both requests read pair 1 and posted its refresh token; the refresh of one
\* was answered with pair 2 and its send went out with token 2 while the
\* refresh POST of the other is still in flight.
C11_Witness ==
  /\ file.kind = "tokens" /\ file.access_token = 2
  /\ \E p \in Procs, q \in Procs :
       /\ p # q
       /\ sent[p] = <<Bearer(2)>> /\ call[p].branch = "accessExpired"
       /\ pc[q] = "Refreshing" /\ posted[q] = 1

\* C12: when refresh exchanges overlap, a pair that one of them has saved
\* since process p posted its own refresh is not removed by the answer to p's
\* refresh POST: afterwards the file holds that pair or a newer one (the last
\* successful answer wins).
C12_Original ==
  [][\A p \in Procs :
       (RefreshAnswered(p) /\ file.kind = "tokens" /\ file.access_token > posted[p]) =>
         (file'.kind = "tokens" /\ file'.access_token >= file.access_token)]_vars

(* ----------------------------- token store ---------------------------- *)
\* C13: the token file is absent (or unreadable, as it may have been found at
\* start, before anything was saved) or holds one whole pair: the access token
\* and the refresh token of the same token-endpoint response, with the
\* lifetimes of that response and both expiry instants counted from the one
\* instant of its save.
C13_WholePairOrAbsent ==
  /\ file.kind \in {"absent", "corrupt", "tokens"}
  /\ file.kind = "corrupt" => issued = 1
  /\ file.kind = "tokens" =>
       /\ file.access_token = file.refresh_token
       /\ file.access_token \in 1..issued
       /\ file.token_type = "Bearer"
       /\ file.expires_in \in ExpiresInChoices
       /\ file.refresh_expires_in \in RefreshExpiresInChoices
       /\ file.access_token_expires_at - file.expires_in * 1000
            = file.refresh_token_expires_at - file.refresh_expires_in * 1000

\* A code exchange and a refresh exchange have both saved a pair, and the
\* file holds the pair of the latest response.
C13_Witness ==
  /\ codeCalls >= 1
  /\ tokenCalls[1] >= 1
  /\ issued >= 3
  /\ file.kind = "tokens" /\ file.access_token = issued
  /\ pc[1] = "Done" /\ call[1].out = "return"

(* ---------------------------- configuration --------------------------- *)
\* The texts of the authentication errors.
AuthenticationTexts ==
  {MsgNaoAutenticado, MsgSessaoExpirada, MsgFalhaRenovar, TxtNaoAutorizado}

\* C18: without TINY_CLIENT_ID or TINY_CLIENT_SECRET a request never reads
\* the token file, never calls the token endpoint, is never sent and never
\* retried; it ends with the configuration error, whose text is none of the
\* authentication texts, and the token file stays as it was found.
C18_MissingConfigFailsFirst ==
  oauthConfig = "null" =>
    /\ issued = 1
    /\ file.kind = "tokens" => file.access_token = 1
    /\ \A p \in Procs :
         /\ pc[p] \in {"Idle", "NeedToken", "Done"}
         /\ gvatCalls[p] = 0
         /\ tokenCalls[p] = 0
         /\ call[p] = NoCall
         /\ sent[p] = << >>
         /\ replies[p] = << >>
         /\ ~retry[p]
         /\ pc[p] = "Done" =>
              /\ result[p] = Failure(PlainError(MsgConfig))
              /\ handleApiError(result[p].error) = MsgConfig
              /\ handleApiError(result[p].error) \notin AuthenticationTexts

\* Both requests have ended with the configuration error while a pair with a
\* live access token is stored.
C18_Witness ==
  /\ oauthConfig = "null"
  /\ file.kind = "tokens" /\ ~AccessExpiredAt(file, now)
  /\ \A p \in Procs : pc[p] = "Done" /\ result[p] = Failure(PlainError(MsgConfig))

(* -------------------------- interactive login ------------------------- *)
\* The listener handles a callback request in this step.
CallbackStep == cb'.n = cb.n + 1

\* C14: a callback whose state parameter is not the state generated for the
\* login attempt (a missing one included) starts no code exchange and makes
\* the login fail: the server is closed and the promise is rejected, with
\* "Invalid authorization code or state" unless the callback also carried an
\* error parameter.
C14_StateMismatchNoExchange ==
  [][(CallbackStep /\ cb'.state # lstate) =>
       /\ codeCalls' = codeCalls
       /\ inflight' = inflight
       /\ file' = file
       /\ ~listening'
       /\ promise' = "rejected"
       /\ loginErr' = IF cb'.error = "" THEN MsgInvalidCodeOrState ELSE cb'.error]_vars

\* A callback with a code and the wrong state has made the login fail, no
\* code exchange having been started.
C14_Witness ==
  /\ cb.code = "c1" /\ cb.state = "s2" /\ cb.error = "" /\ lstate = "s1"
  /\ promise = "rejected" /\ loginErr = MsgInvalidCodeOrState
  /\ codeCalls = 0 /\ ~listening

\* C15: a callback carrying an error parameter starts no code exchange and
\* makes the login fail with that error, whatever its code and state are.
C15_ErrorParamNoExchange ==
  [][(CallbackStep /\ cb'.error # "") =>
       /\ codeCalls' = codeCalls
       /\ inflight' = inflight
       /\ file' = file
       /\ ~listening'
       /\ promise' = "rejected"
       /\ loginErr' = cb'.error]_vars

\* A callback with an error parameter next to a code and the right state has
\* made the login fail, no code exchange having been started.
C15_Witness ==
  /\ cb.error = "access_denied" /\ cb.code = "c1" /\ cb.state = lstate
  /\ promise = "rejected" /\ loginErr = "access_denied"
  /\ codeCalls = 0 /\ ~listening

\* C16: only one callback is honored in a login: at most one code exchange
\* is ever started, also when a second callback arrives while the first
\* exchange is in flight, and the listener is closed once the login resolved.
C16_Original ==
  /\ codeCalls <= 1
  /\ promise = "resolved" => ~listening

\* C17: the timer fires no sooner than 5 minutes after the login started and
\* closes the listener; when no callback has come by then the login fails
\* with the timeout error; no callback is handled after the timer fired, and
\* a login that no callback has reached is never pending a whole tick past
\* its 5 minutes.
C17_TimeoutStopsListener ==
  [][/\ (timer = "armed" /\ timer' = "fired") =>
          /\ now >= loginStart + 5 * 60 * 1000
          /\ ~listening'
          /\ cb.n = 0 => (promise' = "rejected" /\ loginErr' = MsgTimeout)
          /\ file' = file /\ codeCalls' = codeCalls
     /\ CallbackStep => (timer = "armed" /\ listening)
     /\ timer' = "fired" => ~listening'
     /\ (promise' = "pending" /\ cb'.n = 0) =>
          now' < loginStart' + 5 * 60 * 1000 + TickMs]_vars

\* The timer has fired on a login that no callback had reached.
C17_Witness ==
  /\ timer = "fired" /\ cb.n = 0 /\ codeCalls = 0
  /\ promise = "rejected" /\ loginErr = MsgTimeout
  /\ ~listening /\ now >= loginStart + 5 * 60 * 1000

(* --------------------------- pair lifecycle --------------------------- *)
\* An exchange with the token endpoint (code or refresh) is answered with a
\* new pair in this step.
PairIssued == issued' = issued + 1
\* A code exchange is answered in this step.
CodeExchangeAnswered == inflight' = inflight - 1
\* tiny-mcp-auth logout runs in this step: nothing but the file changes.
LogoutStep == UNCHANGED <<now, issued, oauthConfig, pipeVars, loginVars, storeVars>>

\* C19: the token file comes to hold a pair only in a step in which the
\* token endpoint answers a code exchange or a refresh exchange with a new
\* pair, and in that very step: the pair is saved before the refresh returns
\* its access token and before the login resolves. A readable pair is
\* removed only by logout, by a getValidAccessToken call that finds the
\* refresh token expired, or by the answer to a failed refresh; a reply to a
\* send, whatever its status, leaves the file alone.
C19_PairLifecycle ==
  [][/\ (file' # file /\ file'.kind = "tokens") =>
          /\ PairIssued
          /\ RefreshAnswered(1) \/ CodeExchangeAnswered
          /\ \E e \in ExpiresInChoices, r \in RefreshExpiresInChoices :
               file' = saveTokens(TokenResponse(issued', e, r), now)
     /\ PairIssued =>
          /\ file'.kind = "tokens" /\ file'.access_token = issued'
          /\ RefreshAnswered(1) => (call'[1].out = "return" /\ call'[1].ret = issued')
     /\ (promise = "pending" /\ promise' = "resolved") =>
          (PairIssued /\ CodeExchangeAnswered)
     /\ (Readable(file) /\ ~Readable(file')) =>
          /\ file' = NoFile
          /\ \/ LogoutStep
             \/ /\ GvatStep(1)
                /\ call'[1].branch = "refreshExpired"
                /\ RefreshExpiredAt(file, now)
             \/ /\ RefreshAnswered(1)
                /\ ~PairIssued
                /\ call'[1].err = PlainError(MsgFalhaRenovar)
     /\ Replied(1) =>
          (file' = file \/ (LastReply(1) = 401 /\ call'[1].branch = "refreshExpired"))]_vars

\* A login has resolved, saving a pair, and a later getValidAccessToken call
\* found that pair's refresh token expired and removed it.
C19_Witness ==
  /\ promise = "resolved" /\ codeCalls >= 1
  /\ issued = 2
  /\ file = NoFile
  /\ call[1].branch = "refreshExpired"

(* -------------------------- save, then load --------------------------- *)
\* C20: after saveTokens(arg) at instant savedAt, the file reads back as a
\* pair with the access token, refresh token, token type and lifetimes of arg
\* and with both expiry instants equal to savedAt plus the lifetime in
\* milliseconds, whatever expiry instants arg carried and whatever the file
\* held before; and that is what a loadTokens call made since has returned.
C20_SaveLoadRoundTrip ==
  arg.kind = "tokens" =>
    LET tokens == loadTokens(file) IN
      /\ tokens.kind = "tokens"
      /\ tokens.access_token = arg.access_token
      /\ tokens.refresh_token = arg.refresh_token
      /\ tokens.token_type = arg.token_type
      /\ tokens.expires_in = arg.expires_in
      /\ tokens.refresh_expires_in = arg.refresh_expires_in
      /\ tokens.access_token_expires_at = savedAt + arg.expires_in * 1000
      /\ tokens.refresh_token_expires_at = savedAt + arg.refresh_expires_in * 1000
      /\ loaded # NotLoaded => loaded = tokens

\* A pair carrying expiry instants of 15 minutes was saved at 3 minutes over
\* the initial pair 1 and loaded: its expiry instants were counted anew.
C20_Witness ==
  /\ arg.kind = "tokens" /\ arg.access_token = 2 /\ arg.refresh_token = 3
  /\ arg.access_token_expires_at = 15 * 60 * 1000
  /\ arg.expires_in = 600
  /\ savedAt = 3 * 60 * 1000
  /\ loaded.kind = "tokens"
  /\ loaded.access_token = 2
  /\ loaded.access_token_expires_at = 3 * 60 * 1000 + 600 * 1000

(* --------------------------- load and clear --------------------------- *)
\* C21: a loadTokens call returns null, and nothing else, both when there is
\* no file and when the file cannot be parsed, and the stored pair when there
\* is one; and getValidAccessToken on an unparsable file ends as on a missing
\* one: it throws the not-authenticated error and leaves the file alone.
C21_LoadAbsentOrCorruptIsNull ==
  /\ loaded # NotLoaded =>
       /\ loaded.kind \in {"null", "tokens"}
       /\ file.kind \in {"absent", "corrupt"} => loaded = Null
       /\ file.kind = "tokens" => loaded = file
  /\ file.kind = "corrupt" =>
       LET onCorrupt == getValidAccessToken(file, now)
           onEmpty == getValidAccessToken(NoFile, now) IN
         /\ onCorrupt.step = "throw"
         /\ onCorrupt.error = PlainError(MsgNaoAutenticado)
         /\ onCorrupt.error = onEmpty.error
         /\ onCorrupt.branch = onEmpty.branch
         /\ onCorrupt.file = file

\* loadTokens has run on an unparsable file and returned null.
C21_Witness ==
  /\ file = CorruptFile
  /\ loaded = Null

\* C22: a clearTokens call leaves no file, whatever was there; on a missing
\* file it changes nothing, so a second call in a row has no further effect.
C22_ClearIdempotent ==
  [][clears' = clears + 1 =>
       /\ file' = NoFile
       /\ clearTokens(file') = file'
       /\ file = NoFile => file' = file
       /\ clears >= 1 => file' = file]_vars

\* clearTokens has run twice in a row and there is no file.
C22_Witness ==
  /\ clears = 2
  /\ file = NoFile

(* ---------------------------- expiry tests ---------------------------- *)
\* C23: isAccessTokenExpired is true exactly when the pair has no access
\* expiry instant or the present instant is no earlier than 5 minutes before
\* it: true 4 minutes before the expiry instant, false 6 minutes before it.
C23_AccessExpiredFiveMinuteBuffer ==
  (checked.done /\ checked.authenticated) =>
    LET expires_at == file.access_token_expires_at IN
      /\ checked.access = (expires_at = 0 \/ now >= expires_at - 5 * 60 * 1000)
      /\ (expires_at # 0 /\ now = expires_at - 4 * 60 * 1000) => checked.access
      /\ (expires_at # 0 /\ now = expires_at - 6 * 60 * 1000) => ~checked.access

\* The status command ran 4 minutes before the access expiry instant and
\* found the access token expired.
C23_Witness ==
  /\ checked.done /\ checked.authenticated
  /\ file.access_token_expires_at # 0
  /\ now = file.access_token_expires_at - 4 * 60 * 1000
  /\ checked.access

\* C24: isRefreshTokenExpired is true exactly when the pair has no refresh
\* expiry instant or the present instant is no earlier than it, with no
\* buffer: true at the expiry instant, false 1 ms before it.
C24_RefreshExpiredNoBuffer ==
  (checked.done /\ checked.authenticated) =>
    LET expires_at == file.refresh_token_expires_at IN
      /\ checked.refresh = (expires_at = 0 \/ now >= expires_at)
      /\ (expires_at # 0 /\ now = expires_at) => checked.refresh
      /\ (expires_at # 0 /\ now = expires_at - 1) => ~checked.refresh

\* The status command ran at the refresh expiry instant and found the refresh
\* token expired.
C24_Witness ==
  /\ checked.done /\ checked.authenticated
  /\ file.refresh_token_expires_at # 0
  /\ now = file.refresh_token_expires_at
  /\ checked.refresh

(* ----------------------- the states of one call ----------------------- *)
\* The state of the spec's diagram a request is in, from its place in the
\* code, its _retry flag and its result.
StageOf(place, retried, res) ==
  CASE place \in {"Idle", "Off"} -> "NotStarted"
    [] place = "Done" -> IF res.state = "ok" THEN "Success" ELSE "Failed"
    [] place = "Sent" -> IF retried THEN "Sent2" ELSE "Sent"
    [] place = "TokenValid" -> IF retried THEN "Retrying" ELSE "TokenValid"
    [] OTHER -> IF retried THEN "Retrying" ELSE "NeedToken"

\* The arrows of the diagram, and the three the code has besides: a request
\* fails without being sent when no access token can be had, a first send
\* fails when its answer is not a 401 to be retried, and the retry fails
\* before its send when no access token can be had.
DiagramEdges ==
  {<<"NotStarted", "NeedToken">>, <<"NeedToken", "TokenValid">>,
   <<"TokenValid", "Sent">>, <<"Sent", "Success">>, <<"Sent", "Retrying">>,
   <<"Retrying", "Sent2">>, <<"Sent2", "Success">>, <<"Sent2", "Failed">>}
FailureEdges ==
  {<<"NeedToken", "Failed">>, <<"Sent", "Failed">>, <<"Retrying", "Failed">>}

\* The request of process p changes its state along one of the arrows.
MovesAlong(p, edges) ==
  LET from == StageOf(pc[p], retry[p], result[p])
      to == StageOf(pc'[p], retry'[p], result'[p]) IN
    from # to => <<from, to>> \in edges

\* C25 as stated: a request moves only along the arrows of the diagram.
C25_Original == [][\A p \in Procs : MovesAlong(p, DiagramEdges)]_vars

\* C25: a request moves only along the arrows of the diagram or fails straight
\* from NeedToken, Sent or Retrying; it never goes back to Retrying once it
\* left it; and once started it reaches Success or Failed, every
\* token-endpoint call and every send being answered in the end.
C25_CallStateMachine ==
  /\ [][\A p \in Procs : MovesAlong(p, DiagramEdges \cup FailureEdges)]_vars
  /\ \A p \in Procs :
       (pc[p] = "NeedToken") ~> (pc[p] = "Done" /\ result[p] # Pending)

\* A request went through Retrying and its second send, and failed there.
C25_Witness ==
  /\ pc[1] = "Done" /\ result[1].state = "error"
  /\ retry[1] /\ Len(sent[1]) = 2
  /\ replies[1] = <<401, 500>>

(* ------------------- the token a refreshing request sends ------------- *)
\* The request interceptor's getValidAccessToken call of process p, its
\* latest, made a refresh exchange that was answered with a new pair.
RefreshedForSend(p) ==
  /\ caller[p] = "request"
  /\ call[p].branch = "accessExpired"
  /\ call[p].out = "return"

\* C26: a request whose request interceptor made a refresh exchange holds, and
\* sends, the access token of the answer to that exchange: a token issued by
\* the token endpoint, returned to no other request's refresh, and the same
\* whether or not the token file still holds it.
C26_SendsOwnRefreshedToken ==
  \A p \in Procs :
    RefreshedForSend(p) =>
      /\ call[p].ret \in 2..issued
      /\ \A q \in Procs \ {p} :
           (call[q].branch = "accessExpired" /\ call[q].out = "return")
             => call[q].ret # call[p].ret
      /\ pc[p] = "TokenValid" => hdr[p] = Bearer(call[p].ret)
      /\ pc[p] \in {"Sent", "Done"} =>
           /\ Len(sent[p]) >= 1
           /\ sent[p][Len(sent[p])] = Bearer(call[p].ret)

\* A request holds token 2 of its own refresh answer, about to be sent, while
\* the failed refresh of the other request has removed the token file.
C26_Witness ==
  \E p \in Procs, q \in Procs :
    /\ p # q
    /\ RefreshedForSend(p) /\ call[p].ret = 2
    /\ pc[p] = "TokenValid" /\ hdr[p] = Bearer(2)
    /\ call[q].err = PlainError(MsgFalhaRenovar) /\ pc[q] = "Done"
    /\ file = NoFile

C28_FailedLoginLeavesStore ==
  [][/\ file' # file =>
          \/ LogoutStep
          \/ CodeExchangeAnswered /\ PairIssued /\ promise' = "resolved"
     /\ promise' = "rejected" =>
          /\ issued' = 1
          /\ file' \in {file, NoFile}
          /\ file'.kind = "tokens" => file'.access_token = 1]_vars

\* The timer fired while a code exchange was in flight: the login has failed
\* with the timeout error and the file still holds pair 1.
C28_Witness ==
  /\ promise = "rejected" /\ loginErr = MsgTimeout
  /\ codeCalls = 1 /\ inflight = 1
  /\ timer = "fired"
  /\ file.kind = "tokens" /\ file.access_token = 1

(* ------------------ the retry that cannot get a token ------------------ *)
\* C29: when the getValidAccessToken call that the response interceptor makes
\* on a 401 fails, because there is no readable pair, because the refresh
\* token is expired, or because its refresh exchange failed, the request is
\* not sent again and ends with the session-expired error, also when the
\* call's own error was the not-authenticated one.
C29_FailedRederivationIsSessionExpired ==
  [][\A p \in Procs :
       (\/ /\ Replied(p) /\ LastReply(p) = 401 /\ ~retry[p] /\ oauthConfig # "null"
           /\ (~Readable(file) \/ RefreshExpiredAt(file, now))
        \/ /\ RefreshAnswered(p) /\ caller[p] = "response" /\ ~PairIssued)
         => /\ call'[p].out = "throw"
            /\ call'[p].err.message \in
                 {MsgNaoAutenticado, MsgSessaoExpirada, MsgFalhaRenovar}
            /\ (Replied(p) /\ ~Readable(file))
                 => call'[p].err = PlainError(MsgNaoAutenticado)
            /\ pc'[p] = "Done"
            /\ result'[p] = Failure(PlainError(MsgSessaoExpirada))
            /\ handleApiError(result'[p].error) = MsgSessaoExpirada
            /\ sent'[p] = sent[p]
            /\ Len(sent'[p]) = 1]_vars

\* A request was answered 401 after the token file had gone: its
\* getValidAccessToken call threw the not-authenticated error and the request
\* ended, sent once, with the session-expired error.
C29_Witness ==
  \E p \in Procs :
    /\ pc[p] = "Done"
    /\ result[p] = Failure(PlainError(MsgSessaoExpirada))
    /\ call[p].branch = "absent"
    /\ call[p].err = PlainError(MsgNaoAutenticado)
    /\ replies[p] = <<401>>
    /\ Len(sent[p]) = 1

\* The token file holds a pair saved at instant t whose access token lives
\* longer than the 5-minute buffer and whose refresh token lives at all.
SavedAtInstant(f, t) ==
  /\ Readable(f)
  /\ f.expires_in > 300
  /\ f.refresh_expires_in > 0
  /\ f.access_token_expires_at = t + f.expires_in * 1000
  /\ f.refresh_token_expires_at = t + f.refresh_expires_in * 1000

====
